---- MODULE Spec2Model ----
(***************************************************************************)
(* Model of src/main.py: ExamBookingSystem, an unbalanced binary search    *)
(* tree of Exam records keyed by room number (location).                   *)
(*                                                                         *)
(* Python values whose type the code tests at run time (isinstance) are     *)
(* modelled as tagged records [type, ...].  A bool is an int in Python     *)
(* (True == 1, False == 0), so it is covered by the integers 1 and 0.      *)
(* Nodes live in an arena: nodes[i] is the i-th Node object created, and a *)
(* child reference is an index into the arena (None == 0).                 *)
(***************************************************************************)
EXTENDS Integers, Sequences, FiniteSets, TLC

\* ------------------------------------------------------------------ bounds
MaxLoc == 3
MaxDay == 2
MaxNodes == 3
MaxAssigned == 1

None == 0

\* ------------------------------------------------------------ Python values
PyInt(n) == [type |-> "int", val |-> n]
PyStr == [type |-> "str", val |-> 0]
IsInt(v) == v.type = "int"

DateTime(d, h) == [type |-> "datetime", day |-> d, hour |-> h]
NotDateTime == [type |-> "str", day |-> 0, hour |-> 0]
IsDateTime(v) == v.type = "datetime"

\* datetime.date(): the calendar day, the time of day dropped
DateOf(dt) == [day |-> dt.day]

Days == 1..MaxDay

\* course ids are strings, modelled as sequences of characters
CSE101 == <<"C", "S", "E", "-", "1", "0", "1", "-", "4", "5", "6">>
ENG606 == <<"E", "N", "G", "-", "6", "0", "6", "-", "5", "6", "7">>
CSE11 == <<"C", "S", "E", "-", "1", "-", "1">>
CSE101NL == CSE101 \o <<"\n">>

Upper == {"A", "B", "C", "D", "E", "F", "G", "H", "I", "J", "K", "L", "M",
          "N", "O", "P", "Q", "R", "S", "T", "U", "V", "W", "X", "Y", "Z"}
Digit == {"0", "1", "2", "3", "4", "5", "6", "7", "8", "9"}

\* re.match(r'^[A-Z]{3}-\d{3}-\d{3}$', s): without re.MULTILINE, '$' matches
\* at the end of the string and also just before a newline that ends it.
ReMatch(s) ==
    /\ Len(s) \in {11, 12}
    /\ \A i \in 1..3 : s[i] \in Upper
    /\ s[4] = "-"
    /\ \A i \in 5..7 : s[i] \in Digit
    /\ s[8] = "-"
    /\ \A i \in 9..11 : s[i] \in Digit
    /\ (Len(s) = 12 => s[12] = "\n")

Exam(c, l, d, n) == [course_id |-> c, location |-> l, date |-> d, num_students |-> n]

\* ------------------------------------------------------------------- state
\* nodes, root, size: the ExamBookingSystem object.  call: the call the caller
\* has just made, with its arguments and what it handed back (NoCall between
\* calls).  okCalls: how many book_exam calls returned True so far (ghost).
VARIABLES nodes, root, size, call, okCalls

vars == <<nodes, root, size, call, okCalls>>

\* ExamBookingSystem.Node.__init__
Node(exam) == [exam |-> exam, left |-> None, right |-> None, location |-> exam.location]

\* what a call hands back to its caller: a returned value or a raised ValueError
\* (ghost fields of a range query: visited, how many nodes its traversal looked
\* at, and acc, the list the traversal built before it was sorted)
Returned(flag, exams, visited) ==
    [kind |-> "return", msg |-> "", flag |-> flag, exams |-> exams, visited |-> visited,
     acc |-> <<>>]
Raised(msg) ==
    [kind |-> "raise", msg |-> msg, flag |-> FALSE, exams |-> <<>>, visited |-> 0,
     acc |-> <<>>]

Call(op, args, out) == [op |-> op, args |-> args, out |-> out]
NoCall == Call("none", <<>>, Returned(FALSE, <<>>, 0))

MsgCourseId == "Invalid course ID format"
MsgLocation == "Invalid location"
MsgDate == "Invalid date format"
MsgStudents == "Invalid number of students"
MsgBooked == "Room is already booked"
MsgRangeInts == "Location range must be integers"
MsgRangeOrder == "Start location must be less than or equal to end location"

\* ExamBookingSystem.__init__
Init ==
    /\ nodes = <<>>
    /\ root = None
    /\ size = 0
    /\ call = NoCall
    /\ okCalls = 0

\* ------------------------------------------------------------- validation
\* validate_exam_data: "ok" when it returns True, else the message it raises
ValidateExamData(exam) ==
    IF ~ReMatch(exam.course_id) THEN MsgCourseId
    ELSE IF ~IsInt(exam.location) \/ exam.location.val <= 0 THEN MsgLocation
    ELSE IF ~IsDateTime(exam.date) THEN MsgDate
    ELSE IF ~IsInt(exam.num_students) \/ exam.num_students.val <= 0 THEN MsgStudents
    ELSE "ok"

\* ------------------------------------------------------------ point lookup
\* variant: compares the full timestamps
SameDayFullTimestamp(stored, date) == stored = date

\* current.exam.date.date() == date.date()
SameDay(stored, date) == DateOf(stored) = DateOf(date)

\* variant: comparison the wrong way round
LookupGoesLeftFlipped(location, current) == location.val > current.location.val

\* location < current.location
LookupGoesLeft(location, current) == location.val < current.location.val

\* the while loop of find_exam_by_location_and_date from `current`;
\* <<exam>> is a returned record, <<>> is None
RECURSIVE FindFrom(_, _, _, _)
FindFrom(ns, current, location, date) ==
    IF current = None THEN <<>>
    ELSE IF location.val = ns[current].location.val
         THEN IF SameDay(ns[current].exam.date, date)
              THEN <<ns[current].exam>>
              ELSE <<>>
    ELSE IF LookupGoesLeft(location, ns[current])
         THEN FindFrom(ns, ns[current].left, location, date)
         ELSE FindFrom(ns, ns[current].right, location, date)

FindExamByLocationAndDateResult(ns, rt, location, date) ==
    FindFrom(ns, rt, location, date)

\* --------------------------------------------------------------- insertion
\* variant: never sees an equal key
IsDuplicateKeyNever(exam, node) == FALSE

\* variant: an equal key counts only when the day is equal too
IsDuplicateKeySameDayOnly(exam, node) ==
    exam.location.val = node.location.val /\ DateOf(node.exam.date) = DateOf(exam.date)

\* exam.location == node.location
IsDuplicateKey(exam, node) == exam.location.val = node.location.val

\* variant: comparison the wrong way round
InsertGoesLeftFlipped(exam, node) == exam.location.val > node.location.val

\* exam.location < node.location
InsertGoesLeft(exam, node) == exam.location.val < node.location.val

\* variant: the counter is not incremented
SizeAfterInsertForgotten(sz) == sz

\* self.size += 1
SizeAfterInsert(sz) == sz + 1

\* variant: an equal key overwrites the record of the node
RECURSIVE InsertRecursiveReplacing(_, _, _, _)
InsertRecursiveReplacing(ns, sz, n, exam) ==
    IF IsDuplicateKey(exam, ns[n])
    THEN [nodes |-> [ns EXCEPT ![n].exam = exam], size |-> sz, ret |-> TRUE]
    ELSE IF InsertGoesLeft(exam, ns[n])
         THEN IF ns[n].left = None
              THEN [nodes |-> Append([ns EXCEPT ![n].left = Len(ns) + 1], Node(exam)),
                    size |-> SizeAfterInsert(sz), ret |-> TRUE]
              ELSE InsertRecursiveReplacing(ns, sz, ns[n].left, exam)
         ELSE IF ns[n].right = None
              THEN [nodes |-> Append([ns EXCEPT ![n].right = Len(ns) + 1], Node(exam)),
                    size |-> SizeAfterInsert(sz), ret |-> TRUE]
              ELSE InsertRecursiveReplacing(ns, sz, ns[n].right, exam)

\* variant: no descent, the new node is hung on the first node's slot even
\* when the slot is taken
InsertRecursiveNoDescent(ns, sz, n, exam) ==
    IF IsDuplicateKey(exam, ns[n])
    THEN [nodes |-> ns, size |-> sz, ret |-> FALSE]
    ELSE IF InsertGoesLeft(exam, ns[n])
         THEN [nodes |-> Append([ns EXCEPT ![n].left = Len(ns) + 1], Node(exam)),
               size |-> SizeAfterInsert(sz), ret |-> TRUE]
         ELSE [nodes |-> Append([ns EXCEPT ![n].right = Len(ns) + 1], Node(exam)),
               size |-> SizeAfterInsert(sz), ret |-> TRUE]

\* _insert_recursive(node, exam) on arena ns with counter sz
RECURSIVE InsertRecursive(_, _, _, _)
InsertRecursive(ns, sz, n, exam) ==
    IF IsDuplicateKey(exam, ns[n])
    THEN [nodes |-> ns, size |-> sz, ret |-> FALSE]
    ELSE IF InsertGoesLeft(exam, ns[n])
         THEN IF ns[n].left = None
              THEN [nodes |-> Append([ns EXCEPT ![n].left = Len(ns) + 1], Node(exam)),
                    size |-> SizeAfterInsert(sz), ret |-> TRUE]
              ELSE InsertRecursive(ns, sz, ns[n].left, exam)
         ELSE IF ns[n].right = None
              THEN [nodes |-> Append([ns EXCEPT ![n].right = Len(ns) + 1], Node(exam)),
                    size |-> SizeAfterInsert(sz), ret |-> TRUE]
              ELSE InsertRecursive(ns, sz, ns[n].right, exam)

\* book_exam(exam): the index after the call and what the caller gets
BookExamResult(ns, rt, sz, exam) ==
    LET v == ValidateExamData(exam) IN
    IF v # "ok"
    THEN [nodes |-> ns, root |-> rt, size |-> sz, out |-> Raised(v)]
    ELSE IF FindExamByLocationAndDateResult(ns, rt, exam.location, exam.date) # <<>>
    THEN [nodes |-> ns, root |-> rt, size |-> sz, out |-> Raised(MsgBooked)]
    ELSE IF rt = None
    THEN [nodes |-> Append(ns, Node(exam)), root |-> Len(ns) + 1,
          size |-> SizeAfterInsert(sz), out |-> Returned(TRUE, <<>>, 0)]
    ELSE LET r == InsertRecursive(ns, sz, rt, exam) IN
         [nodes |-> r.nodes, root |-> rt, size |-> r.size,
          out |-> Returned(r.ret, <<>>, 0)]

\* ------------------------------------------------------------- range query
\* variant: comparison the wrong way round
RangeGoesLeftFlipped(start_loc, node) == start_loc.val > node.location.val

\* start_loc < node.location
RangeGoesLeft(start_loc, node) == start_loc.val < node.location.val

\* variant: comparison the wrong way round
RangeGoesRightFlipped(end_loc, node) == end_loc.val < node.location.val

\* end_loc > node.location
RangeGoesRight(end_loc, node) == end_loc.val > node.location.val

\* start_loc <= node.location <= end_loc
InRange(start_loc, end_loc, node) ==
    start_loc.val <= node.location.val /\ node.location.val <= end_loc.val

\* _find_in_range_recursive(node, start_loc, end_loc, result): acc.result is
\* the list afterwards, acc.visited counts the nodes the calls looked at
RECURSIVE FindInRangeRecursive(_, _, _, _, _)
FindInRangeRecursive(ns, n, start_loc, end_loc, acc) ==
    IF n = None THEN acc
    ELSE LET r1 == [result |-> IF InRange(start_loc, end_loc, ns[n])
                               THEN Append(acc.result, ns[n].exam) ELSE acc.result,
                    visited |-> acc.visited + 1]
             r2 == IF RangeGoesLeft(start_loc, ns[n])
                   THEN FindInRangeRecursive(ns, ns[n].left, start_loc, end_loc, r1)
                   ELSE r1
         IN IF RangeGoesRight(end_loc, ns[n])
            THEN FindInRangeRecursive(ns, ns[n].right, start_loc, end_loc, r2)
            ELSE r2

\* sorted(result, key=lambda x: x.location): stable, ascending by key
RECURSIVE InsertSorted(_, _)
InsertSorted(s, e) ==
    IF s = <<>> THEN <<e>>
    ELSE IF s[Len(s)].location.val <= e.location.val THEN Append(s, e)
    ELSE Append(InsertSorted(SubSeq(s, 1, Len(s) - 1), e), s[Len(s)])

\* variant: the list is returned as the traversal left it
SortedByLocationForgotten(s) == s

RECURSIVE SortedByLocation(_)
SortedByLocation(s) ==
    IF s = <<>> THEN <<>>
    ELSE InsertSorted(SortedByLocation(SubSeq(s, 1, Len(s) - 1)), s[Len(s)])

\* variant: rejects an interval of one room as well
RangeIsReversedOrEqual(start_loc, end_loc) == start_loc.val >= end_loc.val

\* start_loc > end_loc
RangeIsReversed(start_loc, end_loc) == start_loc.val > end_loc.val

\* find_exams_in_range(start_loc, end_loc)
FindExamsInRangeResult(ns, rt, start_loc, end_loc) ==
    IF ~(IsInt(start_loc) /\ IsInt(end_loc))
    THEN Raised(MsgRangeInts)
    ELSE IF RangeIsReversed(start_loc, end_loc)
    THEN Raised(MsgRangeOrder)
    ELSE LET acc == FindInRangeRecursive(ns, rt, start_loc, end_loc,
                                         [result |-> <<>>, visited |-> 0])
         IN [Returned(FALSE, SortedByLocation(acc.result), acc.visited)
                EXCEPT !.acc = acc.result]

\* ------------------------------------------------------------------ inputs
Locations == 1..MaxLoc

\* well-formed bookings: per room a morning CSE exam on every day and an
\* afternoon ENG exam on day 1 (same day as a CSE one, another time of day,
\* course and student count)
GoodExams ==
    {Exam(CSE101, PyInt(l), DateTime(d, 9), PyInt(30)) : l \in Locations, d \in Days}
    \cup {Exam(ENG606, PyInt(l), DateTime(1, 14), PyInt(40)) : l \in Locations}

\* every combination of a good or malformed course id, location, date and
\* student count, and a location and a student count that are not integers
MixedExams ==
    {Exam(c, l, d, n) : c \in {CSE11, CSE101}, l \in {PyInt(0), PyInt(1)},
                        d \in {DateTime(1, 9), NotDateTime},
                        n \in {PyInt(30), PyInt(-5)}}
    \cup {Exam(CSE101, PyStr, DateTime(1, 9), PyInt(-5)),
          Exam(CSE101, PyInt(1), NotDateTime, PyStr),
          Exam(CSE101, PyInt(1), DateTime(1, 9), PyStr)}

\* course ids that end in a newline
NewlineExams ==
    {Exam(CSE101NL, PyInt(1), DateTime(1, 9), PyInt(30)),
     Exam(CSE101NL, PyInt(1), DateTime(1, 9), PyInt(-5))}

ExamArgs == GoodExams \cup MixedExams \cup NewlineExams

\* range bounds: every pair of integers around the rooms, and bounds that
\* are not integers
RangeInts == {PyInt(l) : l \in 0..(MaxLoc + 1)}
RangeArgs ==
    (RangeInts \X RangeInts) \cup {<<PyStr, PyInt(1)>>, <<PyInt(1), PyStr>>, <<PyStr, PyStr>>}

\* lookups: every room and one beside them, at the times of GoodExams
LookupArgs ==
    {<<PyInt(l), d>> : l \in 1..(MaxLoc + 1),
                       d \in {DateTime(dd, 9) : dd \in Days} \cup {DateTime(1, 14)}}

\* ----------------------------------------------------------------- actions
\* the caller is between two calls
Idle == call = NoCall

BookExam(exam) ==
    LET r == BookExamResult(nodes, root, size, exam) IN
    /\ Idle
    /\ Len(r.nodes) <= MaxNodes
    /\ nodes' = r.nodes
    /\ root' = r.root
    /\ size' = r.size
    /\ call' = Call("book_exam", <<exam>>, r.out)
    /\ okCalls' = IF r.out.kind = "return" /\ r.out.flag THEN okCalls + 1 ELSE okCalls

FindExamsInRange(start_loc, end_loc) ==
    /\ Idle
    /\ call' = Call("find_exams_in_range", <<start_loc, end_loc>>,
                    FindExamsInRangeResult(nodes, root, start_loc, end_loc))
    /\ UNCHANGED <<nodes, root, size, okCalls>>

\* variant: the search loop walks with self.root instead of a local variable
RECURSIVE StopsAt(_, _, _)
StopsAt(ns, current, location) ==
    IF current = None THEN None
    ELSE IF location.val = ns[current].location.val THEN current
    ELSE IF LookupGoesLeft(location, ns[current])
         THEN StopsAt(ns, ns[current].left, location)
         ELSE StopsAt(ns, ns[current].right, location)

FindExamByLocationAndDateWalkingRoot(location, date) ==
    /\ Idle
    /\ call' = Call("find_exam_by_location_and_date", <<location, date>>,
                    Returned(FALSE, FindExamByLocationAndDateResult(nodes, root, location, date), 0))
    /\ root' = StopsAt(nodes, root, location)
    /\ UNCHANGED <<nodes, size, okCalls>>

FindExamByLocationAndDate(location, date) ==
    /\ Idle
    /\ call' = Call("find_exam_by_location_and_date", <<location, date>>,
                    Returned(FALSE, FindExamByLocationAndDateResult(nodes, root, location, date), 0))
    /\ UNCHANGED <<nodes, root, size, okCalls>>

\* the caller has dealt with what the call handed back and goes on
Continue ==
    /\ ~Idle
    /\ call' = NoCall
    /\ UNCHANGED <<nodes, root, size, okCalls>>

Book == \E exam \in ExamArgs : BookExam(exam)
RangeQuery == \E p \in RangeArgs : FindExamsInRange(p[1], p[2])
PointQuery == \E p \in LookupArgs : FindExamByLocationAndDate(p[1], p[2])

Next == Book \/ RangeQuery \/ PointQuery \/ Continue

Spec == Init /\ [][Next]_vars

\* ------------------------------------------------ the caller's own records
\* Exam is a plain (not frozen) dataclass and Node.__init__ keeps the object
\* the caller passed in, so between two calls the caller can assign to a
\* field of an exam it has booked: exam.location = l on the record of node n.
\* (At most MaxAssigned records are left differing from their node's key.)
SetLocation(n, l) ==
    /\ Idle
    /\ Cardinality({m \in 1..Len(nodes) : nodes[m].exam.location # nodes[m].location})
           < MaxAssigned
    /\ nodes' = [nodes EXCEPT ![n].exam.location = PyInt(l)]
    /\ UNCHANGED <<root, size, call, okCalls>>

AssignLocation == \E n \in 1..Len(nodes), l \in Locations : SetLocation(n, l)

NextWithCaller == Next \/ AssignLocation

SpecWithCaller == Init /\ [][NextWithCaller]_vars

\* ------------------------------------------------------- derived notions
NodeIds == 1..Len(nodes)
Key(n) == nodes[n].location.val

\* keys of the subtree hanging from reference n
RECURSIVE SubtreeKeys(_)
SubtreeKeys(n) ==
    IF n = None THEN {}
    ELSE {Key(n)} \cup SubtreeKeys(nodes[n].left) \cup SubtreeKeys(nodes[n].right)

\* keys in left-node-right order
RECURSIVE InOrderKeys(_)
InOrderKeys(n) ==
    IF n = None THEN <<>>
    ELSE InOrderKeys(nodes[n].left) \o <<Key(n)>> \o InOrderKeys(nodes[n].right)

StrictlyAscending(s) == \A i \in 1..(Len(s) - 1) : s[i] < s[i + 1]
Elements(s) == {s[i] : i \in 1..Len(s)}

IndexUnchanged == nodes' = nodes /\ root' = root /\ size' = size

\* a step that makes a call of op / a state right after a call of op
Calls(op) == Idle /\ call'.op = op
Called(op) == call.op = op

BookSucceeded(c) == c.op = "book_exam" /\ c.out.kind = "return" /\ c.out.flag
BookReturnedFalse(c) == c.op = "book_exam" /\ c.out = Returned(FALSE, <<>>, 0)
BookRaised(c, msg) == c.op = "book_exam" /\ c.out = Raised(msg)

\* the four field predicates
\* three upper-case letters, dash, three digits, dash, three digits
CourseIdWellFormed(c) ==
    /\ Len(c) = 11
    /\ \A i \in {1, 2, 3} : c[i] \in Upper
    /\ \A i \in {4, 8} : c[i] = "-"
    /\ \A i \in {5, 6, 7, 9, 10, 11} : c[i] \in Digit
LocationIsPositiveInt(l) == l.type = "int" /\ l.val > 0
DateIsWellFormed(d) == d.type = "datetime"
StudentsIsPositiveInt(n) == n.type = "int" /\ n.val > 0

\* the validation errors that answer to the predicates an exam violates
Violations(e) ==
    {m \in {MsgCourseId, MsgLocation, MsgDate, MsgStudents} :
        \/ m = MsgCourseId /\ ~CourseIdWellFormed(e.course_id)
        \/ m = MsgLocation /\ ~LocationIsPositiveInt(e.location)
        \/ m = MsgDate /\ ~DateIsWellFormed(e.date)
        \/ m = MsgStudents /\ ~StudentsIsPositiveInt(e.num_students)}

\* linear scans over the records the index holds
HoldsRoom(l) == \E n \in NodeIds : nodes[n].exam.location.val = l.val
HoldsRoomOnDay(l, d) ==
    \E n \in NodeIds : nodes[n].exam.location.val = l.val /\ nodes[n].exam.date.day = d.day
RecordsInRange(lo, hi) ==
    {nodes[n].exam : n \in {m \in NodeIds : /\ lo.val <= nodes[m].exam.location.val
                                            /\ nodes[m].exam.location.val <= hi.val}}
RecordsAt(l, d) ==
    {nodes[n].exam : n \in {m \in NodeIds : /\ nodes[m].exam.location.val = l.val
                                            /\ nodes[m].exam.date.day = d.day}}

\* C1: after any sequence of book calls the tree is a binary search tree:
\* every key in a node's left subtree is smaller than the node's key, every
\* key in its right subtree is larger, and the in-order traversal from the
\* root lists the room numbers of all nodes in strictly ascending order.
C1_BstProperty ==
    /\ \A n \in NodeIds :
        /\ \A k \in SubtreeKeys(nodes[n].left) : k < Key(n)
        /\ \A k \in SubtreeKeys(nodes[n].right) : k > Key(n)
    /\ StrictlyAscending(InOrderKeys(root))
    /\ Len(InOrderKeys(root)) = Len(nodes)

C1_Witness ==
    /\ Len(nodes) = 3
    /\ nodes[root].left # None
    /\ nodes[root].right # None

\* C2: size equals the number of book calls that succeeded so far; a book
\* call that succeeds adds exactly one to size and a book call that fails
\* (raises, or returns False) leaves size as it was.
C2_SizeInvariant ==
    /\ [](size = okCalls)
    /\ [][Calls("book_exam") =>
            IF BookSucceeded(call') THEN size' = size + 1 ELSE size' = size]_vars

C2_Witness ==
    /\ size = 2
    /\ Called("book_exam")
    /\ ~BookSucceeded(call)

\* C3: no two nodes of the tree hold the same room number.
C3_Uniqueness ==
    \A i \in NodeIds : \A j \in NodeIds : Key(i) = Key(j) => i = j

\* (a well-formed booking for a room the tree holds has just been turned down)
C3_Witness ==
    /\ Len(nodes) >= 2
    /\ Called("book_exam")
    /\ ValidateExamData(call.args[1]) = "ok"
    /\ HoldsRoom(call.args[1].location)
    /\ ~BookSucceeded(call)

\* C4: for integer bounds low <= high, find_exams_in_range returns exactly
\* the held records whose room lies in [low, high], each once, in ascending
\* room order: the same as a linear scan over all held records.
C4_RangeCorrectness ==
    (/\ Called("find_exams_in_range")
     /\ IsInt(call.args[1]) /\ IsInt(call.args[2])
     /\ call.args[1].val <= call.args[2].val) =>
        /\ call.out.kind = "return"
        /\ Elements(call.out.exams) = RecordsInRange(call.args[1], call.args[2])
        /\ Len(call.out.exams) = Cardinality(RecordsInRange(call.args[1], call.args[2]))
        /\ StrictlyAscending([i \in 1..Len(call.out.exams) |->
                                call.out.exams[i].location.val])

\* (two of three records returned, a subtree pruned, the root not returned first)
C4_Witness ==
    /\ Called("find_exams_in_range")
    /\ Len(nodes) = 3
    /\ Len(call.out.exams) = 2
    /\ call.out.visited < 3
    /\ call.out.exams[2] = nodes[root].exam

\* C5: when a record for room r on calendar day d is held, a book call with
\* an exam that passes validation, for room r and a date on day d (whatever
\* its time of day, course id and student count), raises the already-booked
\* error and creates no node.
C5_IdempotentRejection ==
    [][(/\ Calls("book_exam")
        /\ ValidateExamData(call'.args[1]) = "ok"
        /\ HoldsRoomOnDay(call'.args[1].location, call'.args[1].date)) =>
            /\ BookRaised(call', MsgBooked)
            /\ IndexUnchanged]_vars

\* (turned down against a record of another time of day and another course)
C5_Witness ==
    /\ BookRaised(call, MsgBooked)
    /\ \E n \in NodeIds :
        /\ nodes[n].exam.location = call.args[1].location
        /\ nodes[n].exam.date.hour # call.args[1].date.hour
        /\ nodes[n].exam.course_id # call.args[1].course_id

\* C6: a book call with an exam that passes validation, for a room that is
\* a key of the tree with a record on another calendar day, fails by
\* returning False (neither the success value True nor the already-booked
\* error), creates no node and leaves tree and size unchanged.
C6_DuplicateLocation ==
    [][(/\ Calls("book_exam")
        /\ ValidateExamData(call'.args[1]) = "ok"
        /\ HoldsRoom(call'.args[1].location)
        /\ ~HoldsRoomOnDay(call'.args[1].location, call'.args[1].date)) =>
            /\ BookReturnedFalse(call')
            /\ ~BookSucceeded(call')
            /\ ~BookRaised(call', MsgBooked)
            /\ IndexUnchanged]_vars

C6_Witness ==
    /\ BookReturnedFalse(call)
    /\ \E n \in NodeIds :
        /\ nodes[n].exam.location = call.args[1].location
        /\ nodes[n].exam.date.day # call.args[1].date.day

\* C7: a book call with an exam that violates any of the four field
\* predicates raises a validation error of a violated predicate and leaves
\* root, nodes and size as they were.
C7_ValidationRejects ==
    [][(Calls("book_exam") /\ Violations(call'.args[1]) # {}) =>
            /\ call'.out.kind = "raise"
            /\ call'.out.msg \in Violations(call'.args[1])
            /\ IndexUnchanged]_vars

\* the failure of the first failing check, in the order course id, location,
\* date, student count, same-day conflict, duplicate key
AnyCheckFails(e) ==
    Violations(e) # {} \/ HoldsRoom(e.location)
FirstFailure(e) ==
    IF ~CourseIdWellFormed(e.course_id) THEN Raised(MsgCourseId)
    ELSE IF ~LocationIsPositiveInt(e.location) THEN Raised(MsgLocation)
    ELSE IF ~DateIsWellFormed(e.date) THEN Raised(MsgDate)
    ELSE IF ~StudentsIsPositiveInt(e.num_students) THEN Raised(MsgStudents)
    ELSE IF HoldsRoomOnDay(e.location, e.date) THEN Raised(MsgBooked)
    ELSE Returned(FALSE, <<>>, 0)

\* C8: a book call reports the failure of the first failing check in the
\* order course id, location, date, student count, same-day conflict,
\* duplicate key.
C8_CheckOrdering ==
    [][(Calls("book_exam") /\ AnyCheckFails(call'.args[1])) =>
            call'.out = FirstFailure(call'.args[1])]_vars

\* C9: with integer bounds find_exams_in_range raises exactly when
\* low > high; it then visits no node and leaves the index unchanged; with
\* low <= high on an empty index it returns the empty list.
C9_InvalidRange ==
    [][(/\ Calls("find_exams_in_range")
        /\ IsInt(call'.args[1]) /\ IsInt(call'.args[2])) =>
            /\ (call'.out.kind = "raise") <=> (call'.args[1].val > call'.args[2].val)
            /\ call'.out.kind = "raise" =>
                  /\ call'.out = Raised(MsgRangeOrder)
                  /\ call'.out.visited = 0
                  /\ IndexUnchanged
            /\ (call'.out.kind = "return" /\ root = None) =>
                  call'.out = Returned(FALSE, <<>>, 0)]_vars

C9_Witness ==
    /\ Called("find_exams_in_range")
    /\ call.out = Raised(MsgRangeOrder)
    /\ Len(nodes) >= 1

\* C10: find_exam_by_location_and_date returns the held record with the
\* given room whose date falls on the given calendar day, and None when no
\* record has that room or the record of that room is on another day: the
\* same as a linear scan over all held records.
C10_PointLookup ==
    Called("find_exam_by_location_and_date") =>
        /\ call.out.kind = "return"
        /\ Len(call.out.exams) <= 1
        /\ Elements(call.out.exams) = RecordsAt(call.args[1], call.args[2])

\* (a record below the root found, asked for at another time of its day)
C10_Witness ==
    /\ Called("find_exam_by_location_and_date")
    /\ Len(call.out.exams) = 1
    /\ call.out.exams[1] # nodes[root].exam
    /\ call.out.exams[1].date # call.args[2]

\* the (room, record) pairs stored in the subtree of arena ns hanging from n
RECURSIVE StoredIn(_, _)
StoredIn(ns, n) ==
    IF n = None THEN {}
    ELSE {[room |-> ns[n].location.val, record |-> ns[n].exam]}
         \cup StoredIn(ns, ns[n].left) \cup StoredIn(ns, ns[n].right)

\* C11: the index never shrinks: a record stored for a room stays stored for
\* that room in the next state, size never decreases, and size changes only
\* by +1 and only in a book call that succeeds.
C11_MonotoneGrowth ==
    [][/\ StoredIn(nodes, root) \subseteq StoredIn(nodes', root')
       /\ size' >= size
       /\ size' # size => (size' = size + 1 /\ Calls("book_exam") /\ BookSucceeded(call'))]_vars

\* (a third record has just been added to two that are still stored)
C11_Witness ==
    /\ BookSucceeded(call)
    /\ size = 3
    /\ Cardinality(StoredIn(nodes, root)) = 3

\* C12: a range query (returning or raising) and a point lookup leave root,
\* every node (record, key, child references) and size as they were, so the
\* index a later book call works on is the one the earlier calls left.
C12_QueriesReadOnly ==
    [][(Calls("find_exams_in_range") \/ Calls("find_exam_by_location_and_date")) =>
            (IndexUnchanged /\ okCalls' = okCalls)]_vars

\* (a query that raised on a full tree)
C12_Witness ==
    /\ Called("find_exams_in_range")
    /\ call.out.kind = "raise"
    /\ size = 3

\* the index after booking the exams of sequence es, in that order, into an
\* empty index
RECURSIVE BookAll(_)
BookAll(es) ==
    IF es = <<>> THEN [nodes |-> <<>>, root |-> None, size |-> 0]
    ELSE LET st == BookAll(SubSeq(es, 1, Len(es) - 1))
             r == BookExamResult(st.nodes, st.root, st.size, es[Len(es)])
         IN [nodes |-> r.nodes, root |-> r.root, size |-> r.size]

\* the held exams in ascending room order (keys are distinct, C3)
ByRoom ==
    CHOOSE p \in Permutations(NodeIds) :
        \A i \in 1..(Len(nodes) - 1) : Key(p[i]) <= Key(p[i + 1])

\* C13: the exams the index holds, whatever order they were booked in
\* (nodes[1], nodes[2], ... is that order, and every order is the order of
\* some reachable state), give the range query that has just been made the
\* answer it gets when the same exams are booked in ascending room order into
\* an empty index; so any two booking orders give the same answer.
C13_OrderIndependentRange ==
    (/\ Called("find_exams_in_range")
     /\ call.out.kind = "return") =>
        LET t == BookAll([i \in 1..Len(nodes) |-> nodes[ByRoom[i]].exam])
        IN /\ t.size = Len(nodes)
           /\ FindExamsInRangeResult(t.nodes, t.root, call.args[1], call.args[2]).exams
                  = call.out.exams

\* (three records returned from a tree that was not booked in ascending
\* order and whose root is not the smallest room)
C13_Witness ==
    /\ Called("find_exams_in_range")
    /\ Len(call.out.exams) = 3
    /\ call.out.exams[1] # nodes[root].exam
    /\ ByRoom # [i \in 1..3 |-> i]

\* C14: the record a node holds is never changed by anything the caller
\* does, and every node's key equals the location of the record it holds.
C14_RecordImmutable ==
    /\ [](\A n \in NodeIds : nodes[n].location = nodes[n].exam.location)
    /\ [][\A n \in NodeIds : nodes'[n].exam = nodes[n].exam]_vars

\* the absent child slot a binary-search descent from n for key k ends at
\* (k is not a key of the tree)
RECURSIVE DescentSlot(_, _)
DescentSlot(n, k) ==
    IF k < Key(n)
    THEN IF nodes[n].left = None THEN [parent |-> n, side |-> "left"]
         ELSE DescentSlot(nodes[n].left, k)
    ELSE IF nodes[n].right = None THEN [parent |-> n, side |-> "right"]
         ELSE DescentSlot(nodes[n].right, k)

\* C15: a book call that succeeds creates exactly one node, a leaf holding
\* the exam; on an empty index it becomes the root; otherwise root is kept,
\* the one absent child slot the descent for the new key ends at now refers
\* to the new node, and every record, key and other child reference of the
\* existing nodes is as before.
C15_InsertionFrame ==
    [][(Calls("book_exam") /\ BookSucceeded(call')) =>
        LET new == Len(nodes) + 1
            e == call'.args[1]
        IN /\ Len(nodes') = new
           /\ nodes'[new] = [exam |-> e, left |-> None, right |-> None,
                             location |-> e.location]
           /\ IF root = None
              THEN root' = new
              ELSE /\ root' = root
                   /\ LET slot == DescentSlot(root, e.location.val)
                      IN \A n \in NodeIds :
                          /\ nodes'[n].exam = nodes[n].exam
                          /\ nodes'[n].location = nodes[n].location
                          /\ nodes'[n].left =
                                IF n = slot.parent /\ slot.side = "left"
                                THEN new ELSE nodes[n].left
                          /\ nodes'[n].right =
                                IF n = slot.parent /\ slot.side = "right"
                                THEN new ELSE nodes[n].right]_vars

\* (the third node has just been hung below a child of the root)
C15_Witness ==
    /\ BookSucceeded(call)
    /\ Len(nodes) = 3
    /\ nodes[root].left # 3
    /\ nodes[root].right # 3

Keys(s) == [i \in 1..Len(s) |-> s[i].location.val]

\* the records of the subtree hanging from n with room in [lo, hi], each
\* node before its left subtree and that before its right subtree
RECURSIVE PreOrderInRange(_, _, _)
PreOrderInRange(n, lo, hi) ==
    IF n = None THEN <<>>
    ELSE (IF lo.val <= Key(n) /\ Key(n) <= hi.val THEN <<nodes[n].exam>> ELSE <<>>)
         \o PreOrderInRange(nodes[n].left, lo, hi)
         \o PreOrderInRange(nodes[n].right, lo, hi)

\* C16 as claimed: the list the pruned traversal builds is already in
\* ascending room order before it is sorted.
C16_AccumulatorAscending ==
    (Called("find_exams_in_range") /\ call.out.kind = "return") =>
        StrictlyAscending(Keys(call.out.acc))

\* C16 as amended: the list the pruned traversal builds holds the in-range
\* records in pre-order (a node, then its left subtree, then its right
\* subtree); the returned list is that list put in ascending room order by
\* the sort.
C16_AccumulatorPreOrder ==
    (Called("find_exams_in_range") /\ call.out.kind = "return") =>
        /\ call.out.acc = PreOrderInRange(root, call.args[1], call.args[2])
        /\ Elements(call.out.exams) = Elements(call.out.acc)
        /\ Len(call.out.exams) = Len(call.out.acc)
        /\ StrictlyAscending(Keys(call.out.exams))

\* (the traversal listed the root before a smaller room)
C16_Witness ==
    /\ Called("find_exams_in_range")
    /\ Len(call.out.acc) = 3
    /\ call.out.acc[1] = nodes[root].exam
    /\ call.out.acc[2].location.val < call.out.acc[1].location.val

\* nodes[1], nodes[2], ... is the order the held exams were booked in
BookedIncreasing == \A i \in 1..(Len(nodes) - 1) : Key(i) < Key(i + 1)
BookedDecreasing == \A i \in 1..(Len(nodes) - 1) : Key(i) > Key(i + 1)
NextOrNone(i) == IF i < Len(nodes) THEN i + 1 ELSE None

\* C17: exams booked with strictly increasing rooms form a chain of right
\* children from the root (no node has a left child, each node but the last
\* has the next one as right child); with strictly decreasing rooms they
\* form the mirror chain of left children.
C17_DegenerateShape ==
    /\ (BookedIncreasing /\ Len(nodes) >= 1) =>
          /\ root = 1
          /\ \A i \in NodeIds : nodes[i].left = None /\ nodes[i].right = NextOrNone(i)
    /\ (BookedDecreasing /\ Len(nodes) >= 1) =>
          /\ root = 1
          /\ \A i \in NodeIds : nodes[i].right = None /\ nodes[i].left = NextOrNone(i)

\* (three rooms booked in increasing order)
C17_Witness ==
    /\ Len(nodes) = 3
    /\ BookedIncreasing
    /\ Idle

\* C18: a book call succeeds exactly when the exam passes validate_exam_data
\* and no node of the tree has the exam's room as key, whatever the dates;
\* so a call for a room that is held never succeeds.
C18_SuccessCondition ==
    [][Calls("book_exam") =>
        /\ BookSucceeded(call') <=>
              (/\ ValidateExamData(call'.args[1]) = "ok"
               /\ ~HoldsRoom(call'.args[1].location))
        /\ (ValidateExamData(call'.args[1]) = "ok" /\ HoldsRoom(call'.args[1].location))
              => (~BookSucceeded(call') /\ IndexUnchanged)]_vars

\* (a well-formed exam for a room held below the root, on a day the room is
\* free, was turned down)
C18_Witness ==
    /\ BookReturnedFalse(call)
    /\ Len(nodes) = 3
    /\ call.args[1].location # nodes[root].location
    /\ ~HoldsRoomOnDay(call.args[1].location, call.args[1].date)

\* the nodes of the subtree hanging from reference n
RECURSIVE ReachableFrom(_)
ReachableFrom(n) ==
    IF n = None THEN {}
    ELSE {n} \cup ReachableFrom(nodes[n].left) \cup ReachableFrom(nodes[n].right)

\* the number of paths of child references from n to node t
RECURSIVE PathCount(_, _)
PathCount(n, t) ==
    IF n = None THEN 0
    ELSE (IF n = t THEN 1 ELSE 0)
         + PathCount(nodes[n].left, t) + PathCount(nodes[n].right, t)

\* C19: size is the number of nodes reachable from root, root is absent
\* exactly when size is 0, and every node created is reached from root by
\* exactly one path.
C19_SizeMatchesStructure ==
    /\ size = Cardinality(ReachableFrom(root))
    /\ (root = None) <=> (size = 0)
    /\ \A n \in NodeIds : PathCount(root, n) = 1

\* (between two calls, three nodes, the root with a single child)
C19_Witness ==
    /\ Idle
    /\ size = 3
    /\ (nodes[root].left = None) # (nodes[root].right = None)

====
